---- MODULE Spec2Model ----
(***************************************************************************)
(* Model of server/src/controllers/user.controller.ts: the UserController  *)
(* of a LoopBack 4 application.  The controller is glue: every handler is  *)
(* an authentication decorator plus one call on an injected collaborator.  *)
(* The collaborators (UserRepository, BcryptHasher, jwtService and the     *)
(* authentication strategies) are not part of the controller file; they    *)
(* are modelled from the specification's sections 4.1 - 4.4.               *)
(*                                                                         *)
(* A JavaScript object is a function from the names of the properties it   *)
(* carries to their values, so that an absent property is a name outside   *)
(* the DOMAIN.                                                             *)
(*                                                                         *)
(* A handler runs to its first await in one step and from it in another:   *)
(* login waits for the token issuer (line 97), create for the hasher       *)
(* (line 119), and requests of other clients are served in between.  The   *)
(* other handlers make their one repository call and return its promise.   *)
(***************************************************************************)
EXTENDS Integers, Sequences, FiniteSets, TLC

VARIABLES
    rows,      \* the User Store: one row per create, in creation order
    clock,     \* the wall clock read by new Date() and by the Token Issuer
    held,      \* the token the client obtained from its latest login
    inflight,  \* per client: the login or create request waiting at its await
    last       \* the latest completed request: its arguments and response

vars == <<rows, clock, held, inflight, last>>

----------------------------------------------------------------------------
(* Bounds of the model *)

MaxRows == 2      \* create requests the store accepts in one run
MaxTime == 2      \* the clock stops advancing here
MaxSalt == 1      \* salts the hasher draws from

----------------------------------------------------------------------------
(* Input alphabets *)

Clients    == {"c1", "c2"}
Usernames  == {"alice", "bob"}
Plain      == {"p1", "p2"}
Salts      == 1 .. MaxSalt
Ids        == 1 .. MaxRows
TokenTTL   == 1
FarFuture  == MaxTime + TokenTTL + 1   \* a timestamp a client can send, later than any clock reading

Undefined == "undefined"
Tombstone == [deleted |-> TRUE]
EmptyObj  == [f \in {} |-> 0]

Get(o, f) == IF f \in DOMAIN o THEN o[f] ELSE Undefined

\* {...a, ...b}: b's properties over a's
Assign(a, b) == [f \in DOMAIN a \cup DOMAIN b |-> IF f \in DOMAIN b THEN b[f] ELSE a[f]]

Omit(o, f) == [g \in DOMAIN o \ {f} |-> o[g]]

----------------------------------------------------------------------------
(* 4.1 Password Hasher.  A password value is tagged: a client submits       *)
(* plain text, the hasher produces a salted hash of it.                    *)

PlainPw(p) == [kind |-> "plain", text |-> p, salt |-> 0]

hashPassword(pw, salt) == [kind |-> "hash", text |-> pw.text, salt |-> salt]

comparePassword(pw, stored) ==
    /\ stored.kind = "hash"
    /\ pw.kind = "plain"
    /\ stored.text = pw.text

IsHash(v) == v.kind = "hash"

----------------------------------------------------------------------------
(* 4.3 User Store *)

Live == {i \in 1 .. Len(rows) : rows[i] # Tombstone}

Users == {rows[i] : i \in Live}

RowOfId(id) == {i \in Live : rows[i].id = id}

\* the live rows of r that carry the username n
NamedIn(r, n) ==
    {i \in 1 .. Len(r) : r[i] # Tombstone /\ Get(r[i], "username") = n}

RowsNamed(n) == NamedIn(rows, n)

\* a where clause is an object of property equalities; the empty one matches all
Matches(u, where) == \A f \in DOMAIN where : f \in DOMAIN u /\ u[f] = where[f]

WhereOf(filter) == IF "where" \in DOMAIN filter THEN filter.where ELSE EmptyObj

\* the identifier is system-generated: the next row's ordinal
StoreCreate(data) ==
    IF RowsNamed(data.username) # {}
    THEN [status |-> "DuplicateUsername", rows |-> rows, result |-> EmptyObj]
    ELSE [status |-> "ok",
          rows   |-> Append(rows, Assign(data, [id |-> Len(rows) + 1])),
          result |-> Assign(data, [id |-> Len(rows) + 1])]

StoreCount(where) ==
    [status |-> "ok", rows |-> rows,
     result |-> [count |-> Cardinality({i \in Live : Matches(rows[i], where)})]]

\* a filter carries a where clause; relation inclusion adds nothing to the
\* user properties modelled here
StoreFind(filter) ==
    [status |-> "ok", rows |-> rows,
     result |-> {rows[i] : i \in {j \in Live : Matches(rows[j], WhereOf(filter))}}]

StoreFindById(id, filter) ==
    IF RowOfId(id) = {}
    THEN [status |-> "NotFound", rows |-> rows, result |-> EmptyObj]
    ELSE [status |-> "ok", rows |-> rows, result |-> rows[CHOOSE i \in RowOfId(id) : TRUE]]

\* a patch never moves a row to another identifier
PatchRowMutTakesId(row, data) == Assign(row, data)

PatchRow(row, data) == Assign(row, Omit(data, "id"))

\* the update operations answer ok, a count or NotFound; uniqueness of the
\* username is enforced at creation only
StoreUpdateAll(data, where) ==
    LET hit == {i \in Live : Matches(rows[i], where)}
    IN  [status |-> "ok",
         rows   |-> [i \in 1 .. Len(rows) |->
                        IF i \in hit THEN PatchRow(rows[i], data) ELSE rows[i]],
         result |-> [count |-> Cardinality(hit)]]

StoreUpdateById(id, data) ==
    IF RowOfId(id) = {}
    THEN [status |-> "NotFound", rows |-> rows, result |-> EmptyObj]
    ELSE [status |-> "ok",
          rows   |-> [i \in 1 .. Len(rows) |->
                         IF i \in RowOfId(id) THEN PatchRow(rows[i], data) ELSE rows[i]],
          result |-> EmptyObj]

StoreReplaceById(id, data) ==
    IF RowOfId(id) = {}
    THEN [status |-> "NotFound", rows |-> rows, result |-> EmptyObj]
    ELSE [status |-> "ok",
          rows   |-> [i \in 1 .. Len(rows) |->
                         IF i \in RowOfId(id)
                         THEN PatchRow([id |-> rows[i].id], data)
                         ELSE rows[i]],
          result |-> EmptyObj]

StoreDeleteById(id) ==
    IF RowOfId(id) = {}
    THEN [status |-> "NotFound", rows |-> rows, result |-> EmptyObj]
    ELSE [status |-> "ok",
          rows   |-> [i \in 1 .. Len(rows) |-> IF i \in RowOfId(id) THEN Tombstone ELSE rows[i]],
          result |-> EmptyObj]

----------------------------------------------------------------------------
(* 4.2 Token Issuer *)

NoToken == [sig |-> "none"]

ForgedToken ==
    [claim |-> [id |-> 1, username |-> "alice", firstname |-> "Ann"],
     exp |-> FarFuture, sig |-> "forged"]

\* the token embeds the profile's claim set and expires TokenTTL later
generateToken(profile, now) ==
    [claim |-> [id |-> profile.id, username |-> profile.username,
                firstname |-> profile.firstname],
     exp |-> now + TokenTTL, sig |-> "issuer"]

verifyToken(tok, now) ==
    IF tok.sig = "none" THEN "Unauthorized"
    ELSE IF tok.sig # "issuer" THEN "InvalidToken"
    ELSE IF now > tok.exp THEN "Expired"
    ELSE "ok"

AuthFailures == {"Unauthorized", "InvalidToken", "Expired"}

----------------------------------------------------------------------------
(* 4.4 Authentication Gate *)

NoUser == EmptyObj

\* Local strategy: the stored user with the submitted username whose stored
\* password the submitted one verifies against; NoUser when there is none
LocalVerify(cred) ==
    LET hit == {i \in RowsNamed(cred.username) :
                  /\ "password" \in DOMAIN rows[i]
                  /\ comparePassword(cred.password, rows[i].password)}
    IN  IF hit = {} THEN NoUser ELSE rows[CHOOSE i \in hit : TRUE]

\* the @authenticate decorator of each handler
AuthStrategyMutLoginOpen(op) ==
    IF op \in {"login", "create"} THEN "NONE" ELSE "BEARER"

AuthStrategyMutDeleteOpen(op) ==
    CASE op = "login" -> "LOCAL"
      [] op \in {"create", "deleteById"} -> "NONE"
      [] OTHER -> "BEARER"

AuthStrategy(op) ==
    CASE op = "login" -> "LOCAL"
      [] op = "create" -> "NONE"
      [] OTHER -> "BEARER"

BearerOps == {"count", "find", "updateAll", "findById", "updateById",
              "replaceById", "deleteById"}

\* the gate lets the request through to the handler
Admitted(op, tok) ==
    AuthStrategy(op) # "BEARER" \/ verifyToken(tok, clock) = "ok"

----------------------------------------------------------------------------
(* Requests a client can send *)

Credentials == {[username |-> n, password |-> PlainPw(p)] : n \in Usernames, p \in Plain}

GoodCredentials == {cred \in Credentials : cred.password = PlainPw("p1")}

AliceCredentials == [username |-> "alice", password |-> PlainPw("p1")]

CreateBodies ==
    {[username |-> n, password |-> PlainPw("p1"), firstName |-> "Ann"] : n \in Usernames}

\* partial users (PATCH bodies)
NamePatch     == [firstName |-> "Bea"]
PasswordPatch == [password |-> PlainPw("p2")]
StampedPatch  == [updatedAt |-> FarFuture]
RenamePatch   == [username |-> "alice"]

\* a full user (PUT body)
OneReplace == [username |-> "alice", password |-> PlainPw("p2"), firstName |-> "Bea"]

Wheres == {EmptyObj} \cup {[username |-> n] : n \in Usernames}

Filters == {EmptyObj} \cup {[where |-> w] : w \in Wheres \ {EmptyObj}}

\* what a client can put in the Authorization header
Presentable == {NoToken, ForgedToken, held}

\* those of them the gate turns away now
BadTokens == {tok \in Presentable : verifyToken(tok, clock) # "ok"}

----------------------------------------------------------------------------
(* The controller *)

Idle == [stage |-> "idle"]

NoRequest ==
    [op |-> "none", args |-> EmptyObj, token |-> NoToken, at |-> 0,
     status |-> "none", body |-> EmptyObj, calls |-> <<>>, ran |-> FALSE]

Init ==
    /\ rows = <<>>
    /\ clock = 0
    /\ held = NoToken
    /\ inflight = [c \in Clients |-> Idle]
    /\ last = NoRequest

\* a request the gate turned away: the handler does not run
Rejected(op, tok, status) ==
    [op |-> op, args |-> EmptyObj, token |-> tok, at |-> clock,
     status |-> status, body |-> EmptyObj, calls |-> <<>>, ran |-> FALSE]

\* a request whose handler ran and made the store call `call`, answered r
Served(op, tok, args, call, r) ==
    [op |-> op, args |-> args, token |-> tok, at |-> clock,
     status |-> r.status, body |-> r.result, calls |-> <<call>>, ran |-> TRUE]

\* a store write of another request that changes which rows carry the
\* username of a create waiting between its awaits
Disturbed(new) ==
    [c \in Clients |->
        IF /\ inflight[c].stage = "hashed"
           /\ NamedIn(new, inflight[c].user.username)
                # RowsNamed(inflight[c].user.username)
        THEN [inflight[c] EXCEPT !.quiet = FALSE]
        ELSE inflight[c]]

Tick ==
    /\ clock < MaxTime
    /\ clock' = clock + 1
    /\ UNCHANGED <<rows, held, inflight, last>>

\* login, lines 91-96: the UserProfile built from the authenticated user
SessionProfile(currentUser) ==
    [securityId |-> [string |-> currentUser.id],
     id         |-> currentUser.id,
     username   |-> currentUser.username,
     firstname  |-> Get(currentUser, "firstName")]

\* login, lines 66-97: the gate resolves the principal, the handler builds
\* the profile and calls the issuer; it then waits at the await of line 97.
\* A request the gate turns away, or whose handler throws, is answered here.
LoginCall(c, cred) ==
    LET currentUser == IF AuthStrategy("login") = "LOCAL" THEN LocalVerify(cred) ELSE NoUser
        args == [credentials |-> cred]
    IN  /\ inflight[c] = Idle
        /\ IF AuthStrategy("login") = "LOCAL" /\ currentUser = NoUser
           THEN /\ last' = [Rejected("login", NoToken, "InvalidCredentials")
                              EXCEPT !.args = args]
                /\ inflight' = inflight
           ELSE IF currentUser = NoUser
           THEN \* currentUser.id on an undefined principal throws
                /\ last' = [Rejected("login", NoToken, "InternalError")
                              EXCEPT !.args = args, !.ran = TRUE]
                /\ inflight' = inflight
           ELSE /\ inflight' = [inflight EXCEPT ![c] =
                                  [stage   |-> "login",
                                   cred    |-> cred,
                                   profile |-> SessionProfile(currentUser),
                                   at      |-> clock]]
                /\ last' = last
        /\ UNCHANGED <<rows, clock, held>>

\* login, lines 97-98: the issuer has answered, the handler returns the token
LoginReturn(c) ==
    /\ inflight[c].stage = "login"
    /\ LET me    == inflight[c]
           token == generateToken(me.profile, me.at)
       IN  /\ held' = token
           /\ last' = [op |-> "login", args |-> [credentials |-> me.cred],
                       token |-> NoToken, at |-> clock, status |-> "ok",
                       body |-> [token |-> token],
                       calls |-> <<[op |-> "generateToken", args |-> me.profile]>>,
                       ran |-> TRUE]
    /\ inflight' = [inflight EXCEPT ![c] = Idle]
    /\ UNCHANGED <<rows, clock>>

\* create, line 119: user.password = await this.hasher.hashPassword(user.password!)
HashedBody(user, salt) == [user EXCEPT !.password = hashPassword(user.password, salt)]

\* create, line 120, and the response the handler returns: a rejection of
\* the repository's promise is the handler's rejection
CreateReply(c, hashed, plain, race, r) ==
    [Served("create", NoToken,
            [user |-> hashed, plain |-> plain, client |-> c, race |-> race],
            [op |-> "create", args |-> hashed], r)
     EXCEPT !.body = IF r.status = "ok" THEN r.result ELSE EmptyObj]

\* create up to its first await: the hasher has answered
CreateHash(c, user, salt) ==
    /\ inflight[c] = Idle
    /\ Len(rows) < MaxRows \/ RowsNamed(user.username) # {}
    /\ inflight' =
         [d \in Clients |->
            IF d = c
            THEN [stage |-> "hashed",
                  user  |-> HashedBody(user, salt),
                  plain |-> user.password,
                  quiet |-> RowsNamed(user.username) = {},
                  rival |-> IF \E e \in Clients \ {c} :
                                 /\ inflight[e].stage = "hashed"
                                 /\ inflight[e].user.username = user.username
                            THEN "pending" ELSE "none"]
            ELSE IF /\ inflight[d].stage = "hashed"
                    /\ inflight[d].user.username = user.username
                    /\ inflight[d].rival = "none"
            THEN [inflight[d] EXCEPT !.rival = "pending"]
            ELSE inflight[d]]
    /\ UNCHANGED <<rows, clock, held, last>>

\* create from its first await on: the repository call and the response
CreateStore(c) ==
    /\ inflight[c].stage = "hashed"
    /\ Len(rows) < MaxRows \/ RowsNamed(inflight[c].user.username) # {}
    /\ LET me   == inflight[c]
           r    == StoreCreate(me.user)
           told == IF me.quiet THEN r.status ELSE "spoiled"
       IN  /\ rows' = r.rows
           /\ last' = CreateReply(c, me.user, me.plain,
                                  [quiet |-> me.quiet, rival |-> me.rival], r)
           /\ inflight' =
                [d \in Clients |->
                   IF d = c THEN Idle
                   ELSE IF /\ inflight[d].stage = "hashed"
                           /\ inflight[d].rival = "pending"
                           /\ inflight[d].user.username = me.user.username
                   THEN [inflight[d] EXCEPT !.rival = told]
                   ELSE inflight[d]]
    /\ UNCHANGED <<clock, held>>

\* a Bearer-protected handler that makes one store call
Protected(op, tok, args, call, r) ==
    IF Admitted(op, tok)
    THEN /\ rows' = r.rows
         /\ last' = Served(op, tok, args, call, r)
         /\ inflight' = Disturbed(r.rows)
    ELSE /\ last' = Rejected(op, tok, verifyToken(tok, clock))
         /\ UNCHANGED <<rows, inflight>>

\* count, lines 123-131
Count(tok, where) ==
    /\ Protected("count", tok, [where |-> where],
                 [op |-> "count", args |-> [where |-> where]], StoreCount(where))
    /\ UNCHANGED <<clock, held>>

\* find, line 147: the filter handed to the repository
FindFilter(filter) == [include |-> {"customer", "role"}]

\* find, lines 133-148
Find(tok, filter) ==
    /\ Protected("find", tok, [filter |-> filter],
                 [op |-> "find", args |-> [filter |-> FindFilter(filter)]],
                 StoreFind(FindFilter(filter)))
    /\ UNCHANGED <<clock, held>>

\* updateAll, lines 150-168
UpdateAll(tok, user, where) ==
    /\ Protected("updateAll", tok, [user |-> user, where |-> where],
                 [op |-> "updateAll", args |-> [user |-> user, where |-> where]],
                 StoreUpdateAll(user, where))
    /\ UNCHANGED <<clock, held>>

\* findById, lines 170-185
FindById(tok, id, filter) ==
    /\ Protected("findById", tok, [id |-> id, filter |-> filter],
                 [op |-> "findById", args |-> [id |-> id, filter |-> filter]],
                 StoreFindById(id, filter))
    /\ UNCHANGED <<clock, held>>

\* updateById, line 203: user.updatedAt = new Date()
Stamp(user, now) == Assign(user, [updatedAt |-> now])

\* updateById, lines 187-205: new Date() is the clock's present reading,
\* which requests served within one tick of the clock share
UpdateById(tok, id, user) ==
    /\ Protected("updateById", tok, [id |-> id, user |-> user],
                 [op |-> "updateById", args |-> [id |-> id, user |-> Stamp(user, clock)]],
                 StoreUpdateById(id, Stamp(user, clock)))
    /\ UNCHANGED <<clock, held>>

\* replaceById, lines 207-217
ReplaceById(tok, id, user) ==
    /\ Protected("replaceById", tok, [id |-> id, user |-> user],
                 [op |-> "replaceById", args |-> [id |-> id, user |-> user]],
                 StoreReplaceById(id, user))
    /\ UNCHANGED <<clock, held>>

\* deleteById, lines 219-226
DeleteById(tok, id) ==
    /\ Protected("deleteById", tok, [id |-> id],
                 [op |-> "deleteById", args |-> [id |-> id]],
                 StoreDeleteById(id))
    /\ UNCHANGED <<clock, held>>

----------------------------------------------------------------------------
(* Specifications *)

\* the writing handlers as the clock advances, the client presenting the
\* token it holds; a bulk update carries a client-supplied updatedAt
Next ==
    \/ Tick
    \/ \E cred \in GoodCredentials : LoginCall("c2", cred)
    \/ LoginReturn("c2")
    \/ \E user \in CreateBodies, salt \in Salts : CreateHash("c1", user, salt)
    \/ CreateStore("c1")
    \/ UpdateAll(held, StampedPatch, EmptyObj)
    \/ \E id \in Ids : UpdateById(held, id, NamePatch)
    \/ \E id \in Ids : ReplaceById(held, id, OneReplace)
    \/ \E id \in Ids : DeleteById(held, id)

Spec == Init /\ [][Next]_vars

\* the writing handlers with bodies that carry a password
NextPw ==
    \/ \E cred \in GoodCredentials : LoginCall("c2", cred)
    \/ LoginReturn("c2")
    \/ \E user \in CreateBodies, salt \in Salts : CreateHash("c1", user, salt)
    \/ CreateStore("c1")
    \/ \E where \in Wheres : UpdateAll(held, PasswordPatch, where)
    \/ \E id \in Ids : UpdateById(held, id, PasswordPatch)
    \/ \E id \in Ids : ReplaceById(held, id, OneReplace)
    \/ \E id \in Ids : DeleteById(held, id)

SpecPw == Init /\ [][NextPw]_vars

\* every handler reached with a missing, forged or expired token; the reads
\* and deleteById also with a token the gate accepts (the served writes are
\* the subject of Spec)
NextGate ==
    \/ Tick
    \/ LoginCall("c2", AliceCredentials)
    \/ LoginReturn("c2")
    \/ \E user \in CreateBodies : CreateHash("c1", user, 1)
    \/ CreateStore("c1")
    \/ \E tok \in Presentable : Count(tok, EmptyObj)
    \/ \E tok \in Presentable : Find(tok, EmptyObj)
    \/ \E tok \in BadTokens : UpdateAll(tok, NamePatch, EmptyObj)
    \/ \E tok \in Presentable, id \in Ids : FindById(tok, id, EmptyObj)
    \/ \E tok \in BadTokens, id \in Ids : UpdateById(tok, id, NamePatch)
    \/ \E tok \in BadTokens, id \in Ids : ReplaceById(tok, id, OneReplace)
    \/ \E tok \in Presentable, id \in Ids : DeleteById(tok, id)

SpecGate == Init /\ [][NextGate]_vars

\* login with every credential pair, among the requests that change what a
\* login finds
NextLogin ==
    \/ \E cred \in Credentials : LoginCall("c2", cred)
    \/ LoginReturn("c2")
    \/ \E user \in CreateBodies : CreateHash("c1", user, 1)
    \/ CreateStore("c1")
    \/ \E id \in Ids, user \in {NamePatch, RenamePatch} : UpdateById(held, id, user)
    \/ \E id \in Ids : ReplaceById(held, id, OneReplace)
    \/ \E id \in Ids : DeleteById(held, id)

SpecLogin == Init /\ [][NextLogin]_vars

\* the reading handlers with every filter, over stores built by create and
\* thinned by deleteById
NextRead ==
    \/ \E cred \in Credentials : LoginCall("c2", cred)
    \/ LoginReturn("c2")
    \/ \E user \in CreateBodies, salt \in Salts : CreateHash("c1", user, salt)
    \/ CreateStore("c1")
    \/ \E where \in Wheres : Count(held, where)
    \/ \E filter \in Filters : Find(held, filter)
    \/ \E id \in Ids : FindById(held, id, EmptyObj)
    \/ \E id \in Ids : DeleteById(held, id)

SpecRead == Init /\ [][NextRead]_vars

\* create requests of two clients interleaved at their awaits, among
\* replaces that rename a row and deletions
NextRace ==
    \/ \E cred \in GoodCredentials : LoginCall("c2", cred)
    \/ LoginReturn("c2")
    \/ \E c \in Clients, user \in CreateBodies, salt \in Salts : CreateHash(c, user, salt)
    \/ \E c \in Clients : CreateStore(c)
    \/ \E id \in Ids : ReplaceById(held, id, OneReplace)
    \/ \E id \in Ids : DeleteById(held, id)

SpecRace == Init /\ [][NextRace]_vars

\* the writing handlers with every body that names an identifier
NextIds ==
    \/ LoginCall("c2", AliceCredentials)
    \/ LoginReturn("c2")
    \/ \E user \in CreateBodies : CreateHash("c1", user, 1)
    \/ CreateStore("c1")
    \/ \E i \in Ids, where \in Wheres : UpdateAll(held, [id |-> i], where)
    \/ \E id \in Ids, i \in Ids : UpdateById(held, id, [id |-> i])
    \/ \E id \in Ids, i \in Ids : ReplaceById(held, id, Assign(OneReplace, [id |-> i]))
    \/ \E id \in Ids : DeleteById(held, id)

SpecIds == Init /\ [][NextIds]_vars

----------------------------------------------------------------------------
(* Properties *)

\* the stored users a credential pair matches
MatchedBy(cred) ==
    {i \in Live : /\ Get(rows[i], "username") = cred.username
                  /\ "password" \in DOMAIN rows[i]
                  /\ rows[i].password.kind = "hash"
                  /\ rows[i].password.text = cred.password.text}

\* C1: a request to a Bearer-protected operation whose token is missing,
\* forged or expired ends in an authentication failure, its handler does not
\* run and makes no store call, and every step that changes the store
\* belongs to a request that was not turned away.
C1_BearerGateShieldsStore ==
    /\ [](last.op \in BearerOps /\ verifyToken(last.token, last.at) # "ok"
            => /\ last.status \in AuthFailures
               /\ last.calls = <<>>
               /\ ~last.ran)
    /\ [][rows' # rows =>
            (last'.op \in BearerOps => verifyToken(last'.token, last'.at) = "ok")]_vars

C1_Witness ==
    /\ last.op = "replaceById"
    /\ last.status = "Expired"
    /\ Users # {}

\* a login passes the gate and reaches the await of line 97
LoginCallStep(c) == inflight[c] = Idle /\ inflight'[c].stage = "login"

\* a login is answered after the issuer's answer
LoginReturnStep(c) == inflight[c].stage = "login" /\ inflight'[c] = Idle

\* C2: a login whose credentials match a stored user is not turned away; the
\* profile it hands the issuer carries the identifier, username and first
\* name of the stored user the credentials matched, and the token it is
\* answered with carries the claim of that profile.
C2_LoginTokenNamesUser ==
    /\ [][\A c \in Clients : LoginCallStep(c) =>
            \A i \in MatchedBy(inflight'[c].cred) :
                /\ inflight'[c].profile.id = rows[i].id
                /\ inflight'[c].profile.username = rows[i].username
                /\ inflight'[c].profile.firstname = Get(rows[i], "firstName")]_vars
    /\ [][\A c \in Clients : LoginReturnStep(c) =>
            /\ last'.op = "login" /\ last'.status = "ok"
            /\ last'.args.credentials = inflight[c].cred
            /\ last'.body.token.sig = "issuer"
            /\ last'.body.token.claim.id = inflight[c].profile.id
            /\ last'.body.token.claim.username = inflight[c].profile.username
            /\ last'.body.token.claim.firstname = inflight[c].profile.firstname]_vars
    /\ [][(last' # last /\ last'.op = "login" /\ last'.status # "ok")
            => MatchedBy(last'.args.credentials) = {}]_vars

\* C3: a login whose password is wrong or whose username is not stored does
\* not reach the handler body: it is answered InvalidCredentials with no
\* issuer call and no token, and the client's token changes only when a
\* login that passed the gate is answered.
C3_BadLoginIssuesNothing ==
    /\ [][\A c \in Clients : LoginCallStep(c) => MatchedBy(inflight'[c].cred) # {}]_vars
    /\ [][(/\ last' # last
           /\ last'.op = "login"
           /\ MatchedBy(last'.args.credentials) = {}
           /\ \A c \in Clients : ~LoginReturnStep(c))
            => /\ last'.status = "InvalidCredentials"
               /\ ~last'.ran
               /\ last'.calls = <<>>
               /\ last'.body = EmptyObj
               /\ held' = held
               /\ inflight' = inflight]_vars
    /\ [][held' # held => \E c \in Clients : LoginReturnStep(c)]_vars

C3_Witness ==
    /\ last.op = "login"
    /\ last.status = "InvalidCredentials"
    /\ RowsNamed(last.args.credentials.username) # {}
    /\ held # NoToken

\* C4: the password of every stored user is a hash, never a plaintext a
\* client submitted.
C4_StoredPasswordsAreHashes ==
    \A i \in Live : "password" \in DOMAIN rows[i] => IsHash(rows[i].password)

\* no two live rows of r carry the same username
UniqueIn(r) ==
    \A i, j \in 1 .. Len(r) :
        (i # j /\ r[i] # Tombstone /\ r[j] # Tombstone)
            => Get(r[i], "username") # Get(r[j], "username")

\* a create request takes its repository step
CreateStep(c) == inflight[c].stage = "hashed" /\ inflight'[c] = Idle

\* C5: stored usernames are pairwise distinct; a create whose username is
\* stored fails with DuplicateUsername and adds no row, one whose username is
\* unused succeeds and adds one; of two creates with the same unused username
\* whose awaits interleave, with no other write between, exactly one succeeds
\* and the other fails with DuplicateUsername.
C5_UsernamesUnique ==
    /\ [](UniqueIn(rows))
    /\ [][\A c \in Clients : CreateStep(c) =>
            IF RowsNamed(inflight[c].user.username) # {}
            THEN last'.status = "DuplicateUsername" /\ rows' = rows
            ELSE /\ last'.status = "ok"
                 /\ Len(rows') = Len(rows) + 1
                 /\ rows'[Len(rows')].username = inflight[c].user.username]_vars
    /\ [](last.op = "create"
            /\ last.args.race.rival \in {"ok", "DuplicateUsername"}
            /\ last.args.race.quiet
            => {last.status, last.args.race.rival} = {"ok", "DuplicateUsername"})

\* the updatedAt of a row, earlier than every clock reading when it has none
UpdatedAtOf(row) == IF "updatedAt" \in DOMAIN row THEN row.updatedAt ELSE -1

\* C6: updateById on a stored id changes only the patched fields and
\* updatedAt, which becomes newer than it was, and no other row; on an id
\* that is not stored it fails with NotFound and changes nothing.
C6_UpdateByIdFrame ==
    [][(last' # last /\ last'.op = "updateById" /\ last'.ran) =>
        LET id    == last'.args.id
            patch == last'.args.user
        IN  IF RowOfId(id) = {}
            THEN last'.status = "NotFound" /\ rows' = rows
            ELSE \A i \in 1 .. Len(rows) :
                    IF i \in RowOfId(id)
                    THEN /\ \A f \in DOMAIN rows[i] \ (DOMAIN patch \cup {"updatedAt"}) :
                                f \in DOMAIN rows'[i] /\ rows'[i][f] = rows[i][f]
                         /\ DOMAIN rows'[i] \subseteq
                                DOMAIN rows[i] \cup DOMAIN patch \cup {"updatedAt"}
                         /\ UpdatedAtOf(rows'[i]) > UpdatedAtOf(rows[i])
                    ELSE rows'[i] = rows[i]]_vars

\* C7: every row a successful updateById, replaceById or updateAll changes
\* has updatedAt equal to the time of that operation.
C7_WritesStampUpdatedAt ==
    [][(rows' # rows /\ last'.op \in {"updateById", "replaceById", "updateAll"}) =>
        \A i \in 1 .. Len(rows) :
            rows'[i] # rows[i] =>
                "updatedAt" \in DOMAIN rows'[i] /\ rows'[i].updatedAt = clock']_vars

\* C8: a served list request answers what the store's find answers for the
\* caller's filter.
C8_FindPassesFilter ==
    [][(last' # last /\ last'.op = "find" /\ last'.ran)
        => last'.body = StoreFind(last'.args.filter).result]_vars

\* C9: no user in a response carries a password property.
C9_NoPasswordInResponses ==
    /\ (last.op \in {"create", "findById"} /\ last.status = "ok")
            => "password" \notin DOMAIN last.body
    /\ (last.op = "find" /\ last.status = "ok")
            => \A u \in last.body : "password" \notin DOMAIN u

\* C10: a stored row keeps its identifier over every step, bodies naming
\* another id included, and the identifiers of stored rows are pairwise
\* distinct.
C10_IdentifierImmutable ==
    /\ [][\A i \in 1 .. Len(rows) :
            (rows[i] # Tombstone /\ rows'[i] # Tombstone) => rows'[i].id = rows[i].id]_vars
    /\ [](\A i, j \in Live : i # j => rows[i].id # rows[j].id)

C10_Witness ==
    /\ last.op \in {"updateById", "replaceById"}
    /\ last.status = "ok"
    /\ "id" \in DOMAIN last.args.user
    /\ last.args.user.id # last.args.id
    /\ RowOfId(last.args.id) # {}
    /\ Cardinality(Users) = 2
====
